---- MODULE Spec2Model ----
(***************************************************************************)
(* State-machine model of the scheduling front end: the AuthProvider       *)
(* context (user, isLoading, localStorage entries auth_token / user_data,  *)
(* the router), the axios response interceptor, and the form components    *)
(* whose handlers call it (LoginForm, MFALoginStep, MFAEnrollmentWizard,   *)
(* InvitationResponseForm, ForcePasswordChangeForm, ProfileForm) together  *)
(* with the protected pages guarded by useRequireAuth.                     *)
(*                                                                         *)
(* Every asynchronous handler is split at its await: one action issues the *)
(* HTTP request, a second one delivers the response and runs the rest of   *)
(* the handler (then / catch / finally).  A handler keeps the values its   *)
(* closure captured when it was called (the `user` of that render).        *)
(***************************************************************************)
EXTENDS Integers, FiniteSets, Sequences, TLC

\* ---------------------------------------------------------------- bounds
\* Number of requests of form components that may be in flight at the same
\* time (AuthProvider's own initAuth and logout requests come on top).
MaxPending == 1

\* Number of sessions in the list handed to SessionList.
MaxSessions == 3

\* ------------------------------------------------------------- constants
HTTP_OK == 200
HTTP_BAD_REQUEST == 400
HTTP_UNAUTHORIZED == 401

\* The status of a request that got no response: axios gave it up when its
\* timeout ran out (error.response is undefined).
NO_RESPONSE == 0

\* Failed requests: 401, 400 for every other error response, and no response.
FailureStatuses == {HTTP_BAD_REQUEST, HTTP_UNAUTHORIZED, NO_RESPONSE}

AccountStatuses == {"active", "pending_verification", "password_expired_grace_period"}
Profiles == {"p0", "p1"}

\* The User record, restricted to the fields the handlers read or write.
Users == [account_status : AccountStatuses, is_mfa_enabled : BOOLEAN, profile : Profiles]

\* `null` for a User | null value.
NoUser == [account_status |-> "none", is_mfa_enabled |-> FALSE, profile |-> "none"]

\* User records the backend answers with (login, register, getProfile).
ServerUsers == {u \in Users : u.profile = "p0"}

\* localStorage, restricted to STORAGE_KEYS.AUTH_TOKEN and STORAGE_KEYS.USER_DATA.
EmptyStorage == [auth_token |-> FALSE, user_data |-> NoUser]

Routes == {"/", "/login", "/signup", "/dashboard", "/verify-email", "/force-password-change",
           "/reset-password", "/settings/security", "/settings/profile",
           "/invitation", "/admin/sso/saml"}

\* Pages that call useRequireAuth().
ProtectedRoutes == {"/settings/security", "/admin/sso/saml"}

\* Asynchronous handlers (one slot of pending work each).
Handlers == {"initAuth", "logout", "login", "sso", "mfaLogin", "register",
             "wizSetup", "wizVerify", "disableMfa", "invite", "forcePw",
             "forgot", "verifyEmail"}

\* Handlers started by a user action (form submit, button).
UserHandlers == Handlers \ {"initAuth"}

\* Handlers of the form components.
FormHandlers == Handlers \ {"initAuth", "logout"}

SetupSteps == {"device-selection", "totp-setup", "sms-setup", "verification",
               "backup-codes", "complete"}

\* Values of a password field: empty, or some characters.
Passwords == {<< >>, <<"x">>}

VARIABLES
    user,           \* AuthProvider: useState<User | null>
    authLoading,    \* AuthProvider: isLoading
    storage,        \* localStorage
    route,          \* current route of the Next.js router
    reloadPending,  \* window.location.href = '/login' assigned, document not yet replaced
    req,            \* per handler: the awaited request and the closure of the call
    loginForm,      \* LoginForm local state
    mfaStep,        \* MFALoginStep local state
    signupForm,     \* SignupForm local state
    wizard,         \* MFAEnrollmentWizard local state + showMFAEnrollment of the page
    disableForm,    \* DisableMFAForm local state + showDisableMFA of the page
    invitation,     \* InvitationResponseForm local state
    forcePw,        \* ForcePasswordChangeForm local state
    profileForm,    \* ProfileForm local state
    forgotForm,     \* ForgotPasswordForm local state
    verifyPage,     \* EmailVerificationPage local state + the token of its URL
    configForm,     \* SAML/OIDCConfigurationForm: showForm of the page, react-hook-form state
    handed,         \* the last call of a callback prop of that form, with the data it got
    sessions,       \* SessionList: the sessions prop
    revoked,        \* the last call of a callback prop of SessionList
    toast,          \* variant of the toast raised by the last step ("none" if none)
    last            \* the last step: handler, and the response it consumed if any

vars == <<user, authLoading, storage, route, reloadPending, req, loginForm, mfaStep,
          signupForm, wizard, disableForm, invitation, forcePw, profileForm, forgotForm,
          verifyPage, configForm, handed, sessions, revoked, toast, last>>

\* ------------------------------------------------------ initial local state
Idle == [pc |-> "idle", cap |-> NoUser, mounted |-> FALSE, parent |-> FALSE,
         dt |-> "none", n |-> 0]

LoginFormInit == [isLoading |-> FALSE, ssoLoading |-> FALSE, error |-> FALSE,
                  showMfaStep |-> FALSE]
MfaStepInit == [isLoading |-> FALSE, error |-> FALSE]
SignupFormInit == [isLoading |-> FALSE, error |-> FALSE]
WizardInit == [open |-> FALSE, currentStep |-> "device-selection", deviceType |-> "none",
               isLoading |-> FALSE, error |-> FALSE]
DisableFormInit == [open |-> FALSE, isLoading |-> FALSE, error |-> FALSE,
                    fieldError |-> FALSE]
InvitationInit == [isLoading |-> FALSE, isSuccess |-> FALSE, isDeclined |-> FALSE,
                   error |-> FALSE, needsRegistration |-> FALSE]
ForcePwInit == [isLoading |-> FALSE, error |-> FALSE]
ProfileFormInit == [isLoading |-> FALSE, error |-> FALSE]
ForgotFormInit == [isLoading |-> FALSE, isSubmitted |-> FALSE, error |-> FALSE]

\* EmailVerificationPage's useState values; token: searchParams has a token.
VerifyPageInit == [token |-> FALSE, isLoading |-> TRUE, isSuccess |-> FALSE,
                   error |-> FALSE]

\* EmailVerificationPage after its effect ran for a URL without token.
VerifyPageNoToken == [VerifyPageInit EXCEPT !.isLoading = FALSE, !.error = TRUE]

\* Values of a text field, as the parts typed: nothing, a word, a scheme
\* followed by a host.
FieldValues == {<< >>, <<"acme">>, <<"https:", "acme">>}

\* useForm defaultValues for a new configuration: organization_name '', and
\* '' for entity_id (SAML) or issuer (OIDC), held in the field url.
ConfigDefaults == [organization_name |-> << >>, url |-> << >>]
ConfigFormInit == [showForm |-> FALSE, values |-> ConfigDefaults, isDirty |-> FALSE,
                   fieldErrors |-> FALSE]
NothingHanded == [cb |-> "none", values |-> ConfigDefaults]

\* SecuritySettingsPage passes sessions={[]}; no callback of the list called.
NoSessions == << >>
NothingRevoked == [cb |-> "none", id |-> 0]

\* The last step.  For a response delivered to a handler: its status and
\* error code, whether the handler's await threw, and whether the component
\* instance that issued the request was still on screen.  For a client-side
\* navigation: code is the route asked for.
NoLast == [op |-> "none", status |-> -1, code |-> "none", threw |-> FALSE,
           mounted |-> FALSE]

Step(op) == [NoLast EXCEPT !.op = op]
NavStep(r) == [NoLast EXCEPT !.op = "Navigate", !.code = r]

isAuthenticated == user # NoUser

Pending(h) == req[h].pc # "idle"
NumPending == Cardinality({h \in FormHandlers : Pending(h)})
CanSend == NumPending < MaxPending

\* The user can act on the page: no document navigation is under way.  (After
\* window.location.href has been assigned the old document lives on only
\* until the new one arrives; answers to requests in flight may still come.)
Interactive == ~reloadPending

\* ------------------------------------------------------------ pure helpers

Statuses == {HTTP_OK} \cup FailureStatuses

\* Faulty interceptor: a 401 is handed on but the token stays and no redirect
\* is started.
ResponseInterceptor_ignores401(status) ==
    [clearToken |-> FALSE, redirect |-> FALSE, reject |-> (status # HTTP_OK)]

\* api.interceptors.response: what the error branch does for a status.
\* clearToken: localStorage.removeItem('auth_token'); redirect: location.href =
\* '/login'; reject: the error is handed on to the caller (Promise.reject).
ResponseInterceptor(status) ==
    [clearToken |-> (status = HTTP_UNAUTHORIZED),
     redirect   |-> (status = HTTP_UNAUTHORIZED),
     reject     |-> (status # HTTP_OK)]

\* The awaited ApiClient call throws in the handler.
Rejected(status) == ResponseInterceptor(status).reject

Delivery(op, status, code, q) ==
    [op |-> op, status |-> status, code |-> code, threw |-> Rejected(status),
     mounted |-> q.mounted]

\* Storage after the interceptor has seen a response of this status.
Intercepted(st, status) ==
    IF ResponseInterceptor(status).clearToken THEN [st EXCEPT !.auth_token = FALSE] ELSE st

\* Faulty redirect: every signed-in user is sent to the dashboard.
LoginRoute_alwaysDashboard(u) == "/dashboard"

\* AuthProvider.login: the redirect chosen from account_status.
LoginRoute(u) ==
    IF u.account_status = "pending_verification" THEN "/verify-email"
    ELSE IF u.account_status = "password_expired_grace_period" THEN "/force-password-change"
    ELSE "/dashboard"

\* Faulty guard: the effect never pushes /login.
RequireAuth_noPush(r, loading, u) == r

\* useRequireAuth: the effect pushes /login once loading is over and nobody is
\* signed in; r is the route the page was rendered at.
RequireAuth(r, loading, u) ==
    IF r \in ProtectedRoutes /\ ~loading /\ u = NoUser THEN "/login" ELSE r

\* SecuritySettingsPage / SAMLConfigPage: the page body is rendered.
RendersContent(r, loading, u) ==
    r \in ProtectedRoutes /\ ~loading /\ u # NoUser

\* Faulty Back button: the verification step goes back to device-selection.
VerificationBackTarget_toStart(deviceType) == "device-selection"

\* MFAEnrollmentWizard, Back button of the verification step.
VerificationBackTarget(deviceType) ==
    IF deviceType = "totp" THEN "totp-setup" ELSE "sms-setup"

\* Faulty handler: a failed request is sent once more.
Settled_retry(q, status) ==
    IF Rejected(status) /\ q.n < 2 THEN [q EXCEPT !.n = q.n + 1] ELSE Idle

\* A handler of a user action after its then / catch / finally has run: the
\* call is over, nothing is sent again.
Settled(q, status) == Idle

\* ----------------------------------------------------- rendering / effects

\* The current state as a record; actions describe their result as a changed
\* copy of it (toast and last are per step).
Cur == [user |-> user, authLoading |-> authLoading, storage |-> storage,
        route |-> route, reloadPending |-> reloadPending, req |-> req,
        loginForm |-> loginForm, mfaStep |-> mfaStep, signupForm |-> signupForm,
        wizard |-> wizard,
        disableForm |-> disableForm, invitation |-> invitation, forcePw |-> forcePw, profileForm |-> profileForm,
        forgotForm |-> forgotForm, verifyPage |-> verifyPage,
        toast |-> "none", last |-> NoLast]

\* Is the component instance that runs handler h on screen in state d?
ComponentMounted(h, d) ==
    CASE h \in {"login", "sso"} -> d.route = "/login"
      [] h = "mfaLogin" -> d.route = "/login" /\ d.loginForm.showMfaStep
      [] h \in {"wizSetup", "wizVerify"} ->
             /\ d.route = "/settings/security"
             /\ RendersContent(d.route, d.authLoading, d.user)
             /\ d.wizard.open
      [] h = "disableMfa" ->
             /\ d.route = "/settings/security"
             /\ RendersContent(d.route, d.authLoading, d.user)
             /\ ~d.wizard.open
             /\ d.disableForm.open
      [] h = "register" -> d.route = "/signup"
      [] h = "invite" -> d.route = "/invitation"
      [] h = "forcePw" -> d.route = "/force-password-change"
      [] h = "forgot" -> d.route = "/forgot-password"
      [] h = "verifyEmail" -> d.route = "/verify-email"
      [] OTHER -> TRUE

\* Is the parent whose callback handler h calls (LoginForm.handleMfaSuccess
\* for MFALoginStep, SecuritySettingsPage's onSuccess for DisableMFAForm)
\* still on screen?
ParentMounted(h, d) ==
    CASE h = "mfaLogin" -> d.route = "/login"
      [] h = "disableMfa" -> d.route = "/settings/security"
      [] OTHER -> TRUE

\* Faulty clean-up: the request of a component that unmounts is aborted.
Orphaned_abortOnUnmount(q, mounted, parent) ==
    IF q.mounted /\ ~mounted THEN Idle
    ELSE [q EXCEPT !.mounted = @ /\ mounted, !.parent = @ /\ parent]

\* A pending call after a render in which its component (parent) is or is
\* not on screen: no component has an unmount clean-up, the call goes on.
Orphaned(q, mounted, parent) ==
    [q EXCEPT !.mounted = @ /\ mounted, !.parent = @ /\ parent]

\* React's commit after a handler ran, first part: the useRequireAuth effect
\* pushes /login if need be, and the page components of every other route are
\* gone with their state.
RouteEffect(d0) ==
    LET r == RequireAuth(d0.route, d0.authLoading, d0.user)
    IN  [d0 EXCEPT !.route = r,
                   !.loginForm = IF r = "/login" THEN @ ELSE LoginFormInit,
                   !.signupForm = IF r = "/signup" THEN @ ELSE SignupFormInit,
                   !.invitation = IF r = "/invitation" THEN @ ELSE InvitationInit,
                   !.forcePw = IF r = "/force-password-change" THEN @ ELSE ForcePwInit,
                   !.profileForm = IF r = "/settings/profile" THEN @ ELSE ProfileFormInit,
                   !.forgotForm = IF r = "/forgot-password" THEN @ ELSE ForgotFormInit,
                   !.verifyPage = IF r # "/verify-email" THEN VerifyPageInit
                                  ELSE IF route = r \/ d0.last.op = "OpenVerificationLink" THEN @
                                  ELSE VerifyPageNoToken]

\* Second part: a component inside a page that is no longer rendered loses
\* its state (the page keeps its own show... flags while it stays mounted).
UnmountHidden(d) ==
    [d EXCEPT !.mfaStep = IF ComponentMounted("mfaLogin", d) THEN @ ELSE MfaStepInit,
              !.wizard = IF d.route = "/settings/security"
                         THEN (IF ComponentMounted("wizSetup", d) THEN @
                               ELSE [WizardInit EXCEPT !.open = d.wizard.open])
                         ELSE WizardInit,
              !.disableForm = IF d.route = "/settings/security"
                              THEN (IF ComponentMounted("disableMfa", d) THEN @
                                    ELSE [DisableFormInit EXCEPT !.open = d.disableForm.open])
                              ELSE DisableFormInit]

\* Third part: the new state; a pending handler of a component that is gone
\* goes on without a component (or parent callback) to update.
Rendered(d) ==
    /\ user' = d.user
    /\ authLoading' = d.authLoading
    /\ storage' = d.storage
    /\ route' = d.route
    /\ reloadPending' = d.reloadPending
    /\ req' = [h \in Handlers |->
                 IF d.req[h].pc = "idle" THEN Idle
                 ELSE Orphaned(d.req[h], ComponentMounted(h, d), ParentMounted(h, d))]
    /\ loginForm' = d.loginForm
    /\ mfaStep' = d.mfaStep
    /\ signupForm' = d.signupForm
    /\ wizard' = d.wizard
    /\ disableForm' = d.disableForm
    /\ invitation' = d.invitation
    /\ forcePw' = d.forcePw
    /\ profileForm' = d.profileForm
    /\ forgotForm' = d.forgotForm
    /\ verifyPage' = d.verifyPage
    /\ UNCHANGED <<configForm, handed, sessions, revoked>>
    /\ toast' = d.toast
    /\ last' = d.last

\* React's commit after a handler ran.
Commit(d0) == Rendered(UnmountHidden(RouteEffect(d0)))

\* A request issued by handler h; cap is the `user` its closure captured.
Call(h, stage, cap, dt, n) ==
    [pc |-> stage, cap |-> cap, mounted |-> TRUE, parent |-> TRUE, dt |-> dt, n |-> n]

\* The 401 branch of the interceptor as it changes the state record d.
AfterInterceptor(d, status) ==
    [d EXCEPT !.storage = Intercepted(d.storage, status),
              !.reloadPending = d.reloadPending \/ ResponseInterceptor(status).redirect]

\* AuthProvider.updateUser called from a closure that captured cap.
UpdateUser(d, cap, updated) ==
    IF cap # NoUser
    THEN [d EXCEPT !.user = updated, !.storage.user_data = updated]
    ELSE d

\* ------------------------------------------------------ AuthProvider: start

\* A document load at route r: React state starts afresh, requests of the
\* old document are gone, and the initAuth effect runs up to its first await.
Loaded(r, st) ==
    LET fresh == [user |-> NoUser, authLoading |-> TRUE, storage |-> st,
                  route |-> r, reloadPending |-> FALSE,
                  req |-> [h \in Handlers |-> Idle],
                  loginForm |-> LoginFormInit, mfaStep |-> MfaStepInit,
                  signupForm |-> SignupFormInit,
                  wizard |-> WizardInit, disableForm |-> DisableFormInit,
                  invitation |-> InvitationInit,
                  forcePw |-> ForcePwInit, profileForm |-> ProfileFormInit,
                  forgotForm |-> ForgotFormInit,
                  verifyPage |-> IF r = "/verify-email" THEN VerifyPageNoToken
                                 ELSE VerifyPageInit,
                  toast |-> "none", last |-> Step("PageLoad")]
    IN  IF st.auth_token /\ st.user_data # NoUser
        THEN [fresh EXCEPT !.user = st.user_data,
                           !.req["initAuth"] = Call("initAuth", "refresh", NoUser, "none", 1)]
        ELSE [fresh EXCEPT !.authLoading = FALSE]

Init ==
    \E r \in Routes :
        LET d == Loaded(r, EmptyStorage)
        IN  /\ user = d.user
            /\ authLoading = d.authLoading
            /\ storage = d.storage
            /\ route = RequireAuth(d.route, d.authLoading, d.user)
            /\ reloadPending = FALSE
            /\ req = d.req
            /\ loginForm = LoginFormInit
            /\ mfaStep = MfaStepInit
            /\ signupForm = SignupFormInit
            /\ wizard = WizardInit
            /\ disableForm = DisableFormInit
            /\ invitation = InvitationInit
            /\ forcePw = ForcePwInit
            /\ profileForm = ProfileFormInit
            /\ forgotForm = ForgotFormInit
            /\ verifyPage = d.verifyPage
            /\ configForm = ConfigFormInit
            /\ handed = NothingHanded
            /\ sessions = NoSessions
            /\ revoked = NothingRevoked
            /\ toast = "none"
            /\ last = Step("PageLoad")

\* The user reloads the page (a URL typed in is a navigation and a reload).
PageLoad ==
    /\ Interactive
    /\ Commit(Loaded(route, storage))

\* The navigation started by window.location.href = '/login' completes.
LocationReload ==
    /\ reloadPending
    /\ Commit([Loaded("/login", storage) EXCEPT !.last = Step("LocationReload")])

\* Client-side navigation (a <Link>).
Navigate(r) ==
    /\ Interactive
    /\ r # route
    /\ Commit([Cur EXCEPT !.route = r, !.last = NavStep(r)])

\* Error codes of the backend error shape {code, field_errors}.
LoginCodes == {"invalid_credentials", "mfa_required", "password_expired", "account_locked"}
InviteCodes == {"invalid", "user_not_found"}

\* error.response?.data?.code of a failed request: one of the endpoint's codes,
\* or none when there is no response.
ErrorCodes(status, codes) == IF status = NO_RESPONSE THEN {"none"} ELSE codes

\* --------------------------------------------- AuthProvider: logout, refresh

\* Faulty logout: the session is cleared only when the API call succeeded.
LogoutSettled_onlyOnSuccess(d, status) ==
    IF Rejected(status) THEN d
    ELSE [d EXCEPT !.storage = EmptyStorage, !.user = NoUser, !.route = "/login"]

\* AuthProvider.logout after its await: catch logs, finally clears.
LogoutSettled(d, status) ==
    [d EXCEPT !.storage = EmptyStorage, !.user = NoUser, !.route = "/login"]

\* initAuth -> refreshUser: the answer to ApiClient.users.getProfile().
RefreshDone ==
    /\ req["initAuth"].pc = "refresh"
    /\ \E s \in Statuses :
         LET d1 == [AfterInterceptor(Cur, s) EXCEPT
                       !.last = Delivery("initAuth", s, "none", req["initAuth"])]
         IN  IF ~Rejected(s)
             THEN \E u \in ServerUsers :
                    Commit([d1 EXCEPT !.user = u, !.storage.user_data = u,
                                      !.authLoading = FALSE,
                                      !.req["initAuth"] = Idle])
             ELSE IF s = HTTP_UNAUTHORIZED
             THEN \* refreshUser's catch awaits logout()
                  Commit([d1 EXCEPT !.req["initAuth"] =
                                       Call("initAuth", "logout", NoUser, "none", 2)])
             ELSE \* rethrown to initAuth's catch, then setIsLoading(false)
                  Commit([d1 EXCEPT !.storage = EmptyStorage,
                                    !.authLoading = FALSE,
                                    !.req["initAuth"] = Idle])

\* initAuth -> refreshUser -> logout: the answer to ApiClient.auth.logout().
InitLogoutDone ==
    /\ req["initAuth"].pc = "logout"
    /\ \E s \in Statuses :
         LET d1 == LogoutSettled(AfterInterceptor(Cur, s), s)
         IN  \* refreshUser rethrows; initAuth's catch removes both keys again
             Commit([d1 EXCEPT !.storage = EmptyStorage,
                               !.authLoading = FALSE,
                               !.req["initAuth"] = Idle,
                               !.last = Delivery("initAuth.logout", s, "none",
                                                 req["initAuth"])])

\* logout() called from the UI.
Logout ==
    /\ Interactive
    /\ isAuthenticated
    /\ ~Pending("logout")
    /\ Commit([Cur EXCEPT !.req["logout"] = Call("logout", "await", NoUser, "none", 1),
                          !.last = Step("Logout")])

LogoutDone ==
    /\ Pending("logout")
    /\ \E s \in Statuses :
         LET q  == req["logout"]
             d1 == LogoutSettled(AfterInterceptor(Cur, s), s)
         IN  Commit([d1 EXCEPT !.req["logout"] = Settled(q, s),
                               !.last = Delivery("logout", s, "none", q)])

\* ---------------------------------------------------------------- LoginForm

LoginSubmit ==
    /\ Interactive
    /\ route = "/login"
    /\ ~loginForm.showMfaStep
    /\ ~loginForm.isLoading
    /\ ~Pending("login")
    /\ CanSend
    /\ Commit([Cur EXCEPT !.loginForm.error = FALSE,
                          !.loginForm.isLoading = TRUE,
                          !.req["login"] = Call("login", "await", NoUser, "none", 1),
                          !.last = Step("LoginSubmit")])

\* AuthProvider.login after a successful answer carrying user u.
LoginResolved(d, u) ==
    [d EXCEPT !.storage = [auth_token |-> TRUE, user_data |-> u],
              !.user = u,
              !.route = LoginRoute(u)]

\* AuthProvider.login's catch (the error is thrown on).
LoginRejected(d, code) ==
    IF code = "password_expired" THEN [d EXCEPT !.route = "/reset-password"] ELSE d

\* Faulty catch: the message is not put into the form.
LoginFormCatch_noError(lf, code) ==
    IF code = "mfa_required"
    THEN [lf EXCEPT !.showMfaStep = TRUE, !.isLoading = FALSE]
    ELSE [lf EXCEPT !.isLoading = FALSE]

\* LoginForm.onSubmit after login() threw: the inner catch (mfa_required shows
\* the MFA step and returns), the outer catch (setError), then finally.
LoginFormCatch(lf, code) ==
    IF code = "mfa_required"
    THEN [lf EXCEPT !.showMfaStep = TRUE, !.isLoading = FALSE]
    ELSE [lf EXCEPT !.error = TRUE, !.isLoading = FALSE]

\* The toast LoginForm.onSubmit raises for a failed login, by error code.
LoginFailureToast(code) ==
    IF code = "password_expired" THEN "warning"
    ELSE IF code = "account_locked" THEN "destructive"
    ELSE "none"

LoginDone ==
    /\ Pending("login")
    /\ \E s \in Statuses :
         LET q  == req["login"]
             d1 == [AfterInterceptor(Cur, s) EXCEPT !.req["login"] = Settled(q, s)]
         IN  IF ~Rejected(s)
             THEN \E u \in ServerUsers :
                    Commit([LoginResolved(d1, u) EXCEPT
                               !.loginForm.isLoading = IF q.mounted THEN FALSE ELSE @,
                               !.toast = "success",
                               !.last = Delivery("login", s, "none", q)])
             ELSE \E code \in ErrorCodes(s, LoginCodes) :
                    Commit([LoginRejected(d1, code) EXCEPT
                               !.loginForm = IF q.mounted THEN LoginFormCatch(@, code) ELSE @,
                               !.toast = LoginFailureToast(code),
                               !.last = Delivery("login", s, code, q)])

\* handleSSODiscovery with an e-mail value that has no '@'.
SsoInvalidEmail ==
    /\ Interactive
    /\ route = "/login"
    /\ ~loginForm.showMfaStep
    /\ ~loginForm.ssoLoading /\ ~loginForm.isLoading
    /\ Commit([Cur EXCEPT !.toast = "destructive", !.last = Step("SsoInvalidEmail")])

SsoSubmit ==
    /\ Interactive
    /\ route = "/login"
    /\ ~loginForm.showMfaStep
    /\ ~loginForm.ssoLoading /\ ~loginForm.isLoading
    /\ ~Pending("sso")
    /\ CanSend
    /\ Commit([Cur EXCEPT !.loginForm.ssoLoading = TRUE,
                          !.req["sso"] = Call("sso", "await", NoUser, "none", 1),
                          !.last = Step("SsoSubmit")])

\* What handleSSODiscovery shows for a failed discovery (console.error only).
SsoFailureToast == "none"

SsoDone ==
    /\ Pending("sso")
    /\ \E s \in Statuses :
         LET q == req["sso"]
         IN  Commit([AfterInterceptor(Cur, s) EXCEPT
                        !.toast = IF Rejected(s) THEN SsoFailureToast ELSE "info",
                        !.loginForm.ssoLoading = IF q.mounted THEN FALSE ELSE @,
                        !.req["sso"] = Settled(q, s),
                        !.last = Delivery("sso", s, "none", q)])

\* ------------------------------------------------------------- MFALoginStep

MfaLoginSubmit ==
    /\ Interactive
    /\ route = "/login"
    /\ loginForm.showMfaStep
    /\ ~mfaStep.isLoading
    /\ ~Pending("mfaLogin")
    /\ CanSend
    /\ Commit([Cur EXCEPT !.mfaStep.error = FALSE,
                          !.mfaStep.isLoading = TRUE,
                          !.req["mfaLogin"] = Call("mfaLogin", "await", user, "none", 1),
                          !.last = Step("MfaLoginSubmit")])

\* AuthProvider.verifyMfa after a successful answer, for a closure holding cap.
VerifyMfaResolved(d, cap) ==
    UpdateUser(d, cap, [cap EXCEPT !.is_mfa_enabled = TRUE])

\* LoginForm.handleMfaSuccess, passed to MFALoginStep as onSuccess.
HandleMfaSuccess(d, parentMounted) ==
    [d EXCEPT !.loginForm.showMfaStep = IF parentMounted THEN FALSE ELSE @,
              !.toast = "success"]

\* Faulty catch: the message is put into the parent form instead.
MfaStepCatch_parentError(d, mounted) ==
    [d EXCEPT !.loginForm.error = IF mounted THEN TRUE ELSE @,
              !.mfaStep.isLoading = IF mounted THEN FALSE ELSE @,
              !.toast = "destructive"]

\* MFALoginStep.onSubmit after verifyMfa() threw: catch, then finally.
MfaStepCatch(d, mounted) ==
    [d EXCEPT !.mfaStep.error = IF mounted THEN TRUE ELSE @,
              !.mfaStep.isLoading = IF mounted THEN FALSE ELSE @,
              !.toast = "destructive"]

MfaLoginDone ==
    /\ Pending("mfaLogin")
    /\ \E s \in Statuses :
         LET q  == req["mfaLogin"]
             d1 == [AfterInterceptor(Cur, s) EXCEPT
                       !.req["mfaLogin"] = Settled(q, s),
                       !.last = Delivery("mfaLogin", s, "none", q)]
         IN  IF ~Rejected(s)
             THEN Commit([HandleMfaSuccess(VerifyMfaResolved(d1, q.cap), q.parent) EXCEPT
                             !.mfaStep.isLoading = IF q.mounted THEN FALSE ELSE @,
                             !.toast = "success"])
             ELSE Commit(MfaStepCatch(d1, q.mounted))

\* LoginForm.handleMfaBack, passed to MFALoginStep as onBack.
MfaBack ==
    /\ Interactive
    /\ route = "/login"
    /\ loginForm.showMfaStep
    /\ Commit([Cur EXCEPT !.loginForm.showMfaStep = FALSE,
                          !.loginForm.error = FALSE,
                          !.last = Step("MfaBack")])

\* --------------------------------------------------------------- SignupForm

RegisterSubmit ==
    /\ Interactive
    /\ route = "/signup"
    /\ ~signupForm.isLoading
    /\ ~Pending("register")
    /\ CanSend
    /\ Commit([Cur EXCEPT !.signupForm.error = FALSE,
                          !.signupForm.isLoading = TRUE,
                          !.req["register"] = Call("register", "await", NoUser, "none", 1),
                          !.last = Step("RegisterSubmit")])

\* AuthProvider.register after a successful answer carrying user u.
RegisterResolved(d, u) ==
    [d EXCEPT !.storage = [auth_token |-> TRUE, user_data |-> u],
              !.user = u,
              !.route = "/verify-email"]

RegisterDone ==
    /\ Pending("register")
    /\ \E s \in Statuses :
         LET q  == req["register"]
             d1 == [AfterInterceptor(Cur, s) EXCEPT
                       !.req["register"] = Settled(q, s),
                       !.last = Delivery("register", s, "none", q)]
         IN  IF ~Rejected(s)
             THEN \E u \in ServerUsers :
                    Commit([RegisterResolved(d1, u) EXCEPT
                               !.signupForm.isLoading = IF q.mounted THEN FALSE ELSE @,
                               !.toast = "success"])
             ELSE Commit([d1 EXCEPT
                             !.signupForm.error = IF q.mounted THEN TRUE ELSE @,
                             !.signupForm.isLoading = IF q.mounted THEN FALSE ELSE @,
                             !.toast = "destructive"])

\* ----------------------------------------------------------------- HomePage

HomeLinks == {"Sign In", "Get Started"}

\* Faulty links: both lead to the login page.
HomeLinkHref_bothLogin(label) == "/login"

\* <Link href=...> of the two buttons.
HomeLinkHref(label) == IF label = "Sign In" THEN "/login" ELSE "/signup"

\* What HomePage renders: it takes no props and reads no state.
HomePage == [heading |-> "Enterprise Scheduling Platform",
             links |-> HomeLinks,
             cards |-> {"Smart Scheduling", "Enterprise Security", "Workflow Automation"}]

NoPage == [heading |-> "none", links |-> {}, cards |-> {}]

\* Faulty page: the homepage waits for AuthProvider like a protected page.
PageAt_homeGuarded(r, loading, u) ==
    IF r = "/" /\ ~loading THEN HomePage ELSE NoPage

\* Heading, links and cards on screen at route r (of the homepage only).
PageAt(r, loading, u) ==
    IF r = "/" THEN HomePage ELSE NoPage

\* The user clicks one of the homepage's links.
FollowHomeLink(label) ==
    /\ Interactive
    /\ label \in PageAt(route, authLoading, user).links
    /\ Commit([Cur EXCEPT !.route = HomeLinkHref(label),
                          !.last = [NoLast EXCEPT !.op = "FollowHomeLink", !.code = label]])

\* ------------------------------------- SecuritySettingsPage / MFAEnrollmentWizard

WizardShown ==
    /\ route = "/settings/security"
    /\ RendersContent(route, authLoading, user)
    /\ wizard.open

\* MFADeviceList onAddDevice: setShowMFAEnrollment(true).
OpenWizard ==
    /\ Interactive
    /\ route = "/settings/security"
    /\ RendersContent(route, authLoading, user)
    /\ ~wizard.open
    /\ ~disableForm.open
    /\ Commit([Cur EXCEPT !.wizard = [WizardInit EXCEPT !.open = TRUE],
                          !.last = Step("OpenWizard")])

\* onCancel (device-selection) and onComplete (complete): setShowMFAEnrollment(false).
CloseWizard ==
    /\ Interactive
    /\ WizardShown
    /\ wizard.currentStep \in {"device-selection", "complete"}
    /\ Commit([Cur EXCEPT !.wizard = WizardInit, !.last = Step("CloseWizard")])

\* handleDeviceSelection up to its await.
WizSetupSubmit(deviceType) ==
    /\ Interactive
    /\ WizardShown
    /\ wizard.currentStep = "device-selection"
    /\ ~wizard.isLoading
    /\ ~Pending("wizSetup")
    /\ CanSend
    /\ Commit([Cur EXCEPT !.wizard.error = FALSE,
                          !.wizard.isLoading = TRUE,
                          !.wizard.deviceType = deviceType,
                          !.req["wizSetup"] = Call("wizSetup", "await", NoUser, deviceType, 1),
                          !.last = Step("WizSetupSubmit")])

\* The step handleDeviceSelection moves to once setupMfa has answered.
SetupTarget(deviceType) ==
    IF deviceType = "totp" THEN "totp-setup" ELSE "sms-setup"

\* handleDeviceSelection / handleVerification after the call threw: catch,
\* then finally.
WizardCatch(wz) == [wz EXCEPT !.error = TRUE, !.isLoading = FALSE]

WizSetupDone ==
    /\ Pending("wizSetup")
    /\ \E s \in Statuses :
         LET q  == req["wizSetup"]
             d1 == [AfterInterceptor(Cur, s) EXCEPT
                       !.req["wizSetup"] = Settled(q, s),
                       !.last = Delivery("wizSetup", s, "none", q)]
         IN  IF ~Rejected(s)
             THEN Commit([d1 EXCEPT
                             !.wizard = IF q.mounted
                                        THEN [@ EXCEPT !.currentStep = SetupTarget(q.dt),
                                                       !.isLoading = FALSE]
                                        ELSE @,
                             !.toast = "success"])
             ELSE Commit([d1 EXCEPT
                             !.wizard = IF q.mounted THEN WizardCatch(@) ELSE @,
                             !.toast = "destructive"])

\* Continue button of the totp-setup and sms-setup steps.
WizContinue ==
    /\ Interactive
    /\ WizardShown
    /\ wizard.currentStep \in {"totp-setup", "sms-setup"}
    /\ Commit([Cur EXCEPT !.wizard.currentStep = "verification",
                          !.last = Step("WizContinue")])

\* Back buttons of the totp-setup, sms-setup and verification steps.
WizBack ==
    /\ Interactive
    /\ WizardShown
    /\ wizard.currentStep \in {"totp-setup", "sms-setup", "verification"}
    /\ Commit([Cur EXCEPT !.wizard.currentStep =
                              IF wizard.currentStep = "verification"
                              THEN VerificationBackTarget(wizard.deviceType)
                              ELSE "device-selection",
                          !.last = Step("WizBack")])

\* handleVerification up to its await.
WizVerifySubmit ==
    /\ Interactive
    /\ WizardShown
    /\ wizard.currentStep = "verification"
    /\ ~wizard.isLoading
    /\ ~Pending("wizVerify")
    /\ CanSend
    /\ Commit([Cur EXCEPT !.wizard.error = FALSE,
                          !.wizard.isLoading = TRUE,
                          !.req["wizVerify"] = Call("wizVerify", "await", user, "none", 1),
                          !.last = Step("WizVerifySubmit")])

\* The step handleVerification moves to once verifyMfa has answered.
VerifiedTarget(hasBackupCodes) ==
    IF hasBackupCodes THEN "backup-codes" ELSE "complete"

WizVerifyDone ==
    /\ Pending("wizVerify")
    /\ \E s \in Statuses :
         LET q  == req["wizVerify"]
             d1 == [AfterInterceptor(Cur, s) EXCEPT
                       !.req["wizVerify"] = Settled(q, s),
                       !.last = Delivery("wizVerify", s, "none", q)]
         IN  IF ~Rejected(s)
             THEN \E hasBackupCodes \in BOOLEAN :
                    Commit([VerifyMfaResolved(d1, q.cap) EXCEPT
                               !.wizard = IF q.mounted
                                          THEN [@ EXCEPT
                                                  !.currentStep = VerifiedTarget(hasBackupCodes),
                                                  !.isLoading = FALSE]
                                          ELSE @,
                               !.toast = "success"])
             ELSE Commit([d1 EXCEPT
                             !.wizard = IF q.mounted THEN WizardCatch(@) ELSE @,
                             !.toast = "destructive"])

\* "I've Saved My Codes" button of the backup-codes step.
WizSavedCodes ==
    /\ Interactive
    /\ WizardShown
    /\ wizard.currentStep = "backup-codes"
    /\ Commit([Cur EXCEPT !.wizard.currentStep = "complete",
                          !.last = Step("WizSavedCodes")])

\* ------------------------------------------ SecuritySettingsPage / DisableMFAForm

DisableFormShown == ComponentMounted("disableMfa", Cur)

\* The "Disable MFA" button of the MFA tab: setShowDisableMFA(true).
OpenDisableMfa ==
    /\ Interactive
    /\ route = "/settings/security"
    /\ RendersContent(route, authLoading, user)
    /\ ~wizard.open
    /\ ~disableForm.open
    /\ user.is_mfa_enabled
    /\ Commit([Cur EXCEPT !.disableForm = [DisableFormInit EXCEPT !.open = TRUE],
                          !.last = Step("OpenDisableMfa")])

\* onCancel: setShowDisableMFA(false).
CloseDisableMfa ==
    /\ Interactive
    /\ DisableFormShown
    /\ ~disableForm.isLoading
    /\ Commit([Cur EXCEPT !.disableForm = DisableFormInit,
                          !.last = Step("CloseDisableMfa")])

\* disableMfaSchema: password is z.string().min(1).
DisableMfaSchema(password) == Len(password) >= 1

\* handleSubmit(onSubmit): the resolver validates, then onSubmit runs up to
\* its await; a value that fails validation shows the field error instead.
DisableMfaSubmit(password) ==
    /\ Interactive
    /\ DisableFormShown
    /\ ~disableForm.isLoading
    /\ ~Pending("disableMfa")
    /\ IF DisableMfaSchema(password)
       THEN /\ CanSend
            /\ Commit([Cur EXCEPT
                          !.disableForm.error = FALSE,
                          !.disableForm.fieldError = FALSE,
                          !.disableForm.isLoading = TRUE,
                          !.req["disableMfa"] = Call("disableMfa", "await", user, password, 1),
                          !.last = Step("DisableMfaSubmit")])
       ELSE Commit([Cur EXCEPT !.disableForm.fieldError = TRUE,
                               !.last = Step("DisableMfaInvalid")])

\* AuthProvider.disableMfa after a successful answer, for a closure holding cap.
DisableMfaResolved(d, cap) ==
    UpdateUser(d, cap, [cap EXCEPT !.is_mfa_enabled = FALSE])

DisableMfaDone ==
    /\ Pending("disableMfa")
    /\ \E s \in Statuses :
         LET q  == req["disableMfa"]
             d1 == [AfterInterceptor(Cur, s) EXCEPT
                       !.req["disableMfa"] = Settled(q, s),
                       !.last = Delivery("disableMfa", s, "none", q)]
         IN  IF ~Rejected(s)
             THEN Commit([DisableMfaResolved(d1, q.cap) EXCEPT
                             !.disableForm =
                                 IF q.parent THEN DisableFormInit
                                 ELSE IF q.mounted THEN [@ EXCEPT !.isLoading = FALSE]
                                 ELSE @,
                             !.toast = "success"])
             ELSE Commit([d1 EXCEPT
                             !.disableForm.error = IF q.mounted THEN TRUE ELSE @,
                             !.disableForm.isLoading = IF q.mounted THEN FALSE ELSE @,
                             !.toast = "destructive"])

\* ---------------------------------------------------- InvitationResponseForm
\* respondToInvitation, requestPasswordReset and verifyEmail come from
\* useAuth() in @/hooks/useAuth, which is not among the sources.  AuthActions
\* declares them as returning a promise; each is taken to be the same thin
\* wrapper of its one ApiClient endpoint as AuthProvider's other functions
\* (the call resolves with the answer or throws the axios error).
HookCallThrows(status) == Rejected(status)

InviteSubmit(action) ==
    /\ Interactive
    /\ route = "/invitation"
    /\ ~invitation.isLoading
    /\ ~invitation.isSuccess /\ ~invitation.isDeclined
    /\ ~Pending("invite")
    /\ CanSend
    /\ Commit([Cur EXCEPT !.invitation.error = FALSE,
                          !.invitation.isLoading = TRUE,
                          !.req["invite"] = Call("invite", "await", NoUser, action, 1),
                          !.last = Step("InviteSubmit")])

\* InvitationResponseForm.onSubmit after the call resolved, then finally.
InvitationThen(iv, action) ==
    IF action = "decline"
    THEN [iv EXCEPT !.isDeclined = TRUE, !.isLoading = FALSE]
    ELSE [iv EXCEPT !.isSuccess = TRUE, !.isLoading = FALSE]

\* Faulty catch: the early return for user_not_found leaves the flag raised.
InvitationCatch_returnSkipsFinally(iv, code) ==
    IF code = "user_not_found"
    THEN [iv EXCEPT !.needsRegistration = TRUE]
    ELSE [iv EXCEPT !.error = TRUE, !.isLoading = FALSE]

\* InvitationResponseForm.onSubmit after the call threw: catch (user_not_found
\* asks for registration and returns), then finally.
InvitationCatch(iv, code) ==
    IF code = "user_not_found"
    THEN [iv EXCEPT !.needsRegistration = TRUE, !.isLoading = FALSE]
    ELSE [iv EXCEPT !.error = TRUE, !.isLoading = FALSE]

\* The toast InvitationResponseForm.onSubmit raises for a failed call.
InvitationFailureToast(code) ==
    IF code = "user_not_found" THEN "none" ELSE "destructive"

InviteDone ==
    /\ Pending("invite")
    /\ \E s \in Statuses :
         LET q  == req["invite"]
             d1 == [AfterInterceptor(Cur, s) EXCEPT !.req["invite"] = Settled(q, s)]
         IN  IF ~HookCallThrows(s)
             THEN Commit([d1 EXCEPT
                             !.invitation = IF q.mounted THEN InvitationThen(@, q.dt) ELSE @,
                             !.toast = IF q.dt = "decline" THEN "info" ELSE "success",
                             !.last = Delivery("invite", s, "none", q)])
             ELSE \E code \in ErrorCodes(s, InviteCodes) :
                    Commit([d1 EXCEPT
                               !.invitation = IF q.mounted THEN InvitationCatch(@, code) ELSE @,
                               !.toast = InvitationFailureToast(code),
                               !.last = Delivery("invite", s, code, q)])

\* --------------------------------------------------- ForcePasswordChangeForm

ForcePwSubmit ==
    /\ Interactive
    /\ route = "/force-password-change"
    /\ ~forcePw.isLoading
    /\ ~Pending("forcePw")
    /\ CanSend
    /\ Commit([Cur EXCEPT !.forcePw.error = FALSE,
                          !.forcePw.isLoading = TRUE,
                          !.req["forcePw"] = Call("forcePw", "await", user, "none", 1),
                          !.last = Step("ForcePwSubmit")])

\* AuthProvider.forcePasswordChange after a successful answer.
ForcePasswordChangeResolved(d, cap) ==
    [UpdateUser(d, cap, [cap EXCEPT !.account_status = "active"]) EXCEPT
        !.route = "/dashboard"]

ForcePwDone ==
    /\ Pending("forcePw")
    /\ \E s \in Statuses :
         LET q  == req["forcePw"]
             d1 == [AfterInterceptor(Cur, s) EXCEPT
                       !.req["forcePw"] = Settled(q, s),
                       !.last = Delivery("forcePw", s, "none", q)]
         IN  IF ~Rejected(s)
             THEN Commit([ForcePasswordChangeResolved(d1, q.cap) EXCEPT
                             !.forcePw.isLoading = IF q.mounted THEN FALSE ELSE @,
                             !.toast = "success"])
             ELSE Commit([d1 EXCEPT
                             !.forcePw.error = IF q.mounted THEN TRUE ELSE @,
                             !.forcePw.isLoading = IF q.mounted THEN FALSE ELSE @,
                             !.toast = "destructive"])

\* --------------------------------------------------------------- ProfileForm

\* ProfileForm.onSubmit: no request is sent (the updateProfile call is
\* commented out); the edited profile goes straight to updateUser.
ProfileSubmit(p) ==
    /\ Interactive
    /\ route = "/settings/profile"
    /\ ~profileForm.isLoading
    /\ Commit([UpdateUser(Cur, user, [user EXCEPT !.profile = p]) EXCEPT
                          !.profileForm = [isLoading |-> FALSE, error |-> FALSE],
                          !.toast = "success",
                          !.last = Step("ProfileSubmit")])

\* ------------------------------------------------------------ specification

Next ==
    \/ PageLoad
    \/ LocationReload
    \/ \E r \in Routes : Navigate(r)
    \/ RefreshDone
    \/ InitLogoutDone
    \/ Logout
    \/ LogoutDone
    \/ LoginSubmit
    \/ LoginDone
    \/ SsoInvalidEmail
    \/ SsoSubmit
    \/ SsoDone
    \/ MfaLoginSubmit
    \/ MfaLoginDone
    \/ MfaBack
    \/ RegisterSubmit
    \/ RegisterDone
    \/ \E label \in HomeLinks : FollowHomeLink(label)
    \/ OpenWizard
    \/ CloseWizard
    \/ \E deviceType \in {"totp", "sms"} : WizSetupSubmit(deviceType)
    \/ WizSetupDone
    \/ WizContinue
    \/ WizBack
    \/ WizVerifySubmit
    \/ WizVerifyDone
    \/ WizSavedCodes
    \/ OpenDisableMfa
    \/ CloseDisableMfa
    \/ \E password \in Passwords : DisableMfaSubmit(password)
    \/ DisableMfaDone
    \/ \E action \in {"accept", "decline"} : InviteSubmit(action)
    \/ InviteDone
    \/ ForcePwSubmit
    \/ ForcePwDone
    \/ \E p \in Profiles : ProfileSubmit(p)

Spec == Init /\ [][Next]_vars

\* --------------------------- SAMLConfigPage / OIDCConfigPage and their forms
\* The two pages and the two forms differ in field names only.  The callbacks
\* the pages pass (handleSave, onTest) return without a request, so a handler
\* runs to its end in one step.

SsoAdminRoutes == {"/admin/sso/saml", "/admin/sso/oidc"}

\* z.string().min(1)
MinOne(v) == Len(v) >= 1

\* z.string().url(): the value parses as a URL (a scheme, then the rest).
IsUrl(v) == Len(v) >= 2 /\ v[1] = "https:"

\* samlConfigSchema / oidcConfigSchema on the two fields kept.
ConfigSchema(values) == MinOne(values.organization_name) /\ IsUrl(values.url)

\* A signed-in user who may manage SSO has one of the two pages open.
SsoInit ==
    /\ \E r \in SsoAdminRoutes, u \in ServerUsers :
          /\ route = r
          /\ user = u
          /\ storage = [auth_token |-> TRUE, user_data |-> u]
    /\ authLoading = FALSE
    /\ reloadPending = FALSE
    /\ req = [h \in Handlers |-> Idle]
    /\ loginForm = LoginFormInit
    /\ mfaStep = MfaStepInit
    /\ signupForm = SignupFormInit
    /\ wizard = WizardInit
    /\ disableForm = DisableFormInit
    /\ invitation = InvitationInit
    /\ forcePw = ForcePwInit
    /\ profileForm = ProfileFormInit
    /\ forgotForm = ForgotFormInit
    /\ verifyPage = VerifyPageInit
    /\ configForm = ConfigFormInit
    /\ handed = NothingHanded
    /\ sessions = NoSessions
    /\ revoked = NothingRevoked
    /\ toast = "none"
    /\ last = Step("PageLoad")

\* What a step of the form leaves alone.
SsoFrame ==
    UNCHANGED <<user, authLoading, storage, route, reloadPending, req, loginForm,
                mfaStep, signupForm, wizard, disableForm, invitation, forcePw, profileForm,
                forgotForm, verifyPage,
                sessions, revoked>>

\* The page body (list or form) is rendered.
ConfigPageShown == route \in SsoAdminRoutes /\ ~authLoading /\ isAuthenticated

\* handleCreate: setEditingConfig(null); setShowForm(true).
ConfigCreate ==
    /\ ConfigPageShown
    /\ ~configForm.showForm
    /\ configForm' = [ConfigFormInit EXCEPT !.showForm = TRUE]
    /\ toast' = "none"
    /\ last' = Step("ConfigCreate")
    /\ UNCHANGED handed
    /\ SsoFrame

\* The user types into a field: react-hook-form keeps the value, isDirty says
\* whether the values differ from the defaults, and after a failed submit
\* the errors are brought up to date on every change.
ConfigType(field, v) ==
    /\ ConfigPageShown
    /\ configForm.showForm
    /\ configForm.values[field] # v
    /\ LET values == [configForm.values EXCEPT ![field] = v]
       IN  configForm' = [configForm EXCEPT
                            !.values = values,
                            !.isDirty = (values # ConfigDefaults),
                            !.fieldErrors = @ /\ ~ConfigSchema(values)]
    /\ toast' = "none"
    /\ last' = Step("ConfigType")
    /\ UNCHANGED handed
    /\ SsoFrame

\* The submit button (disabled unless isDirty): handleSubmit validates, then
\* onSubmit awaits onSave(data); the page's handleSave closes the form.
ConfigSubmit ==
    /\ ConfigPageShown
    /\ configForm.showForm
    /\ configForm.isDirty
    /\ IF ConfigSchema(configForm.values)
       THEN /\ handed' = [cb |-> "onSave", values |-> configForm.values]
            /\ configForm' = ConfigFormInit
            /\ toast' = "success"
            /\ last' = Step("ConfigSubmit")
       ELSE /\ configForm' = [configForm EXCEPT !.fieldErrors = TRUE]
            /\ toast' = "none"
            /\ last' = Step("ConfigInvalid")
            /\ UNCHANGED handed
    /\ SsoFrame

\* handleTest: formData = watch(); await onTest(formData).
ConfigTest ==
    /\ ConfigPageShown
    /\ configForm.showForm
    /\ handed' = [cb |-> "onTest", values |-> configForm.values]
    /\ toast' = "info"
    /\ last' = Step("ConfigTest")
    /\ UNCHANGED configForm
    /\ SsoFrame

\* onCancel: setShowForm(false).
ConfigCancel ==
    /\ ConfigPageShown
    /\ configForm.showForm
    /\ configForm' = ConfigFormInit
    /\ toast' = "none"
    /\ last' = Step("ConfigCancel")
    /\ UNCHANGED handed
    /\ SsoFrame

SsoNext ==
    \/ ConfigCreate
    \/ \E field \in {"organization_name", "url"}, v \in FieldValues : ConfigType(field, v)
    \/ ConfigSubmit
    \/ ConfigTest
    \/ ConfigCancel

SsoSpec == SsoInit /\ [][SsoNext]_vars

\* --------------------------------------------------------------- SessionList
\* The component is a function of its sessions prop.  The callbacks the page
\* passes log and return, so a handler runs to its end in one step (its
\* revokingSession / revokingAll flag is raised and lowered within it).

SessionFlags == [is_active : BOOLEAN, is_current : BOOLEAN, is_expired : BOOLEAN]

\* UserSession, restricted to id and the three flags the list reads.
Session(i, f) == [id |-> i, is_active |-> f.is_active, is_current |-> f.is_current,
                  is_expired |-> f.is_expired]

IsActiveSession(s) == s.is_active /\ ~s.is_expired
IsOtherSession(s) == ~s.is_current

\* sessions.filter(s => s.is_active && !s.is_expired)
ActiveSessions(ss) == SelectSeq(ss, IsActiveSession)

\* activeSessions.filter(s => !s.is_current)
OtherSessions(ss) == SelectSeq(ActiveSessions(ss), IsOtherSession)

\* Faulty row: every listed session gets the menu.
HasRevokeMenu_everyRow(s) == TRUE

\* The row of a listed session has the "Revoke Session" menu.
HasRevokeMenu(s) == ~s.is_current

\* The "Revoke All Others" button is rendered.
ShowsRevokeAllOthers(ss) == Len(OtherSessions(ss)) > 0

\* A signed-in user has the Sessions tab open; the list got some sessions.
SessionInit ==
    /\ \E u \in ServerUsers :
          /\ user = u
          /\ storage = [auth_token |-> TRUE, user_data |-> u]
    /\ route = "/settings/security"
    /\ authLoading = FALSE
    /\ reloadPending = FALSE
    /\ req = [h \in Handlers |-> Idle]
    /\ loginForm = LoginFormInit
    /\ mfaStep = MfaStepInit
    /\ signupForm = SignupFormInit
    /\ wizard = WizardInit
    /\ disableForm = DisableFormInit
    /\ invitation = InvitationInit
    /\ forcePw = ForcePwInit
    /\ profileForm = ProfileFormInit
    /\ forgotForm = ForgotFormInit
    /\ verifyPage = VerifyPageInit
    /\ configForm = ConfigFormInit
    /\ handed = NothingHanded
    /\ \E n \in 0..MaxSessions :
          \E f \in [1..n -> SessionFlags] :
             sessions = [i \in 1..n |-> Session(i, f[i])]
    /\ revoked = NothingRevoked
    /\ toast = "none"
    /\ last = Step("PageLoad")

\* What a step of the list leaves alone.
SessionFrame ==
    UNCHANGED <<user, authLoading, storage, route, reloadPending, req, loginForm,
                mfaStep, signupForm, wizard, disableForm, invitation, forcePw, profileForm,
                forgotForm, verifyPage,
                configForm, handed, sessions>>

\* "Revoke Session" in the menu of the k-th listed row: handleRevokeSession.
RevokeSession(k) ==
    /\ RendersContent(route, authLoading, user)
    /\ k \in 1..Len(ActiveSessions(sessions))
    /\ HasRevokeMenu(ActiveSessions(sessions)[k])
    /\ revoked' = [cb |-> "onSessionRevoke", id |-> ActiveSessions(sessions)[k].id]
    /\ toast' = "success"
    /\ last' = Step("RevokeSession")
    /\ SessionFrame

\* The "Revoke All Others" button: handleRevokeAllOthers.
RevokeAllOthers ==
    /\ RendersContent(route, authLoading, user)
    /\ ShowsRevokeAllOthers(sessions)
    /\ revoked' = [cb |-> "onRevokeAllOthers", id |-> 0]
    /\ toast' = "success"
    /\ last' = Step("RevokeAllOthers")
    /\ SessionFrame

SessionNext ==
    \/ \E k \in 1..MaxSessions : RevokeSession(k)
    \/ RevokeAllOthers

SessionSpec == SessionInit /\ [][SessionNext]_vars

\* ------------------- ForgotPasswordForm, EmailVerificationPage, invitation
\* The public forms with a success view.  Their page components have no guard,
\* so the specification starts from a visitor who is not signed in.

FormRoutes == Routes \cup {"/forgot-password"}

\* handleSubmit(onSubmit) of the forgot-password form, up to the await.
ForgotSubmit ==
    /\ Interactive
    /\ route = "/forgot-password"
    /\ ~forgotForm.isSubmitted
    /\ ~forgotForm.isLoading
    /\ ~Pending("forgot")
    /\ CanSend
    /\ Commit([Cur EXCEPT !.forgotForm.error = FALSE,
                          !.forgotForm.isLoading = TRUE,
                          !.req["forgot"] = Call("forgot", "await", NoUser, "none", 1),
                          !.last = Step("ForgotSubmit")])

\* ForgotPasswordForm.onSubmit after the call resolved, then finally.
ForgotThen(f) == [f EXCEPT !.isSubmitted = TRUE, !.isLoading = FALSE]

\* Faulty catch: the "Check your email" view is shown for a failed call too.
ForgotCatch_marksSubmitted(f) ==
    [f EXCEPT !.isSubmitted = TRUE, !.error = TRUE, !.isLoading = FALSE]

\* ForgotPasswordForm.onSubmit after the call threw: catch, then finally.
ForgotCatch(f) == [f EXCEPT !.error = TRUE, !.isLoading = FALSE]

ForgotDone ==
    /\ Pending("forgot")
    /\ \E s \in Statuses :
         LET q  == req["forgot"]
             d1 == [AfterInterceptor(Cur, s) EXCEPT !.req["forgot"] = Settled(q, s)]
         IN  IF ~HookCallThrows(s)
             THEN Commit([d1 EXCEPT
                             !.forgotForm = IF q.mounted THEN ForgotThen(@) ELSE @,
                             !.toast = "success",
                             !.last = Delivery("forgot", s, "none", q)])
             ELSE Commit([d1 EXCEPT
                             !.forgotForm = IF q.mounted THEN ForgotCatch(@) ELSE @,
                             !.toast = "destructive",
                             !.last = Delivery("forgot", s, "none", q)])

\* "Send another email" in the success view: setIsSubmitted(false).
SendAnotherEmail ==
    /\ Interactive
    /\ route = "/forgot-password"
    /\ forgotForm.isSubmitted
    /\ Commit([Cur EXCEPT !.forgotForm.isSubmitted = FALSE,
                          !.last = Step("SendAnotherEmail")])

\* The visitor opens the link of the verification mail: a document load at
\* /verify-email?token=..., whose effect calls handleVerification(token) up to
\* the await.
OpenVerificationLink ==
    /\ Interactive
    /\ Commit([Loaded("/verify-email", storage) EXCEPT
                  !.verifyPage = [VerifyPageInit EXCEPT !.token = TRUE],
                  !.req["verifyEmail"] = Call("verifyEmail", "await", NoUser, "none", 1),
                  !.last = Step("OpenVerificationLink")])

\* handleVerification after the call resolved, then finally.
VerifyThen(v) == [v EXCEPT !.isSuccess = TRUE, !.isLoading = FALSE]

\* handleVerification after the call threw: catch, then finally.
VerifyCatch(v) == [v EXCEPT !.error = TRUE, !.isLoading = FALSE]

VerifyEmailDone ==
    /\ Pending("verifyEmail")
    /\ \E s \in Statuses :
         LET q  == req["verifyEmail"]
             d1 == [AfterInterceptor(Cur, s) EXCEPT !.req["verifyEmail"] = Settled(q, s)]
         IN  IF ~HookCallThrows(s)
             THEN Commit([d1 EXCEPT
                             !.verifyPage = IF q.mounted THEN VerifyThen(@) ELSE @,
                             !.toast = "success",
                             !.last = Delivery("verifyEmail", s, "none", q)])
             ELSE Commit([d1 EXCEPT
                             !.verifyPage = IF q.mounted THEN VerifyCatch(@) ELSE @,
                             !.toast = "destructive",
                             !.last = Delivery("verifyEmail", s, "none", q)])

\* The view each of the three components returns.
ForgotView(f) == IF f.isSubmitted THEN "success" ELSE "form"
VerifyView(v) ==
    IF v.isLoading THEN "loading" ELSE IF v.isSuccess THEN "success" ELSE "failed"
InvitationView(iv) ==
    IF iv.isSuccess THEN "success" ELSE IF iv.isDeclined THEN "declined" ELSE "form"

FormsNext ==
    \/ \E r \in FormRoutes : Navigate(r)
    \/ LocationReload
    \/ ForgotSubmit
    \/ ForgotDone
    \/ SendAnotherEmail
    \/ OpenVerificationLink
    \/ VerifyEmailDone
    \/ \E action \in {"accept", "decline"} : InviteSubmit(action)
    \/ InviteDone

FormsSpec == Init /\ [][FormsNext]_vars

\* ------------------------------------------------------------------- claims

\* C1: after logout() has completed, whether the logout API call succeeded or
\* failed, auth_token and user_data are both absent from storage, user is
\* null and the route is /login.
C1_LogoutClearsSession ==
    last.op \in {"logout", "initAuth.logout"} =>
        /\ storage = EmptyStorage
        /\ user = NoUser
        /\ route = "/login"

\* C1, reached: a logout whose API call failed has completed.
C1_FailedLogoutCompleted ==
    /\ last.op = "logout"
    /\ last.threw
    /\ last.status = HTTP_BAD_REQUEST
    /\ storage = EmptyStorage /\ user = NoUser /\ route = "/login"

\* C2: whenever a response has status 401 the stored auth token is cleared,
\* the browser is sent to /login (the navigation is started and ends at
\* /login), and the error is still thrown in the caller.
C2_UnauthorizedClearsRedirectsRejects ==
    /\ last.status = HTTP_UNAUTHORIZED =>
          /\ ~storage.auth_token
          /\ reloadPending
          /\ last.threw
    /\ last.op = "LocationReload" => route = "/login"

\* C2, reached: a signed-in user's verifyMfa call was answered with 401.
C2_UnauthorizedDelivered ==
    /\ last.op = "wizVerify"
    /\ last.status = HTTP_UNAUTHORIZED
    /\ last.threw
    /\ user # NoUser
    /\ ~storage.auth_token
    /\ reloadPending

WizardForward ==
    {<<"device-selection", "totp-setup">>, <<"device-selection", "sms-setup">>,
     <<"totp-setup", "verification">>, <<"sms-setup", "verification">>,
     <<"verification", "backup-codes">>, <<"backup-codes", "complete">>}
WizardSkip == {<<"verification", "complete">>}
WizardBackward ==
    {<<"totp-setup", "device-selection">>, <<"sms-setup", "device-selection">>,
     <<"verification", "totp-setup">>, <<"verification", "sms-setup">>}
WizardLateAnswer ==
    {"device-selection", "totp-setup", "sms-setup"} \X {"backup-codes", "complete"}

\* C5 as stated: the wizard is always at one of its six steps and a step
\* changes only forward along device-selection, totp-setup or sms-setup,
\* verification, backup-codes, complete.
C5_OnlyForwardTransitions ==
    [][ /\ wizard'.currentStep \in SetupSteps
        /\ (wizard.open /\ wizard'.open /\ wizard'.currentStep # wizard.currentStep) =>
              <<wizard.currentStep, wizard'.currentStep>> \in WizardForward ]_vars

\* C5 amended: the wizard is always at exactly one of its six steps; a step
\* changes forward along the order (verification may go straight to complete
\* when the answer carries no backup codes), back by one step with the Back
\* buttons (from verification to the setup step of the chosen device type),
\* or, when the answer to a verification arrives after Back was pressed, from
\* an earlier step to backup-codes or complete.
C5_WizardStepGraph ==
    [][ /\ wizard'.currentStep \in SetupSteps
        /\ (wizard.open /\ wizard'.open /\ wizard'.currentStep # wizard.currentStep) =>
              LET t == <<wizard.currentStep, wizard'.currentStep>>
              IN  /\ t \in WizardForward \cup WizardSkip \cup WizardBackward
                           \cup WizardLateAnswer
                  /\ t \in WizardLateAnswer \cup WizardSkip =>
                        last'.op = "wizVerify" /\ ~last'.threw
                  /\ t \in WizardBackward => last'.op = "WizBack"
                  /\ t = <<"verification", "totp-setup">> => wizard.deviceType = "totp"
                  /\ t = <<"verification", "sms-setup">> => wizard.deviceType = "sms" ]_vars

\* C5, reached: Back was pressed on the verification step.
C5_BackFromVerification ==
    /\ last.op = "WizBack"
    /\ wizard.open
    /\ wizard.currentStep \in {"totp-setup", "sms-setup"}
    /\ wizard.currentStep = VerificationBackTarget(wizard.deviceType)

\* C6: a user action issues at most one HTTP request, and a failed request is
\* not issued again by the client: after the failure has been delivered the
\* handler has no request in flight.
C6_OneRequestNoRetry ==
    /\ \A h \in UserHandlers : req[h].n <= 1
    /\ (last.op \in UserHandlers /\ last.threw) => ~Pending(last.op)

\* C6, reached: a login request failed and nothing is in flight for it.
C6_FailedLoginNotResent ==
    /\ last.op = "login"
    /\ last.threw
    /\ last.code = "invalid_credentials"
    /\ ~Pending("login")

\* C7: the locally held user record (is_mfa_enabled, account_status, profile)
\* changes only in a step that delivers a successful backend response.
C7_UserChangesOnlyAfterRoundTrip ==
    [][ (user # NoUser /\ user' # NoUser /\ user' # user) =>
            (last'.status = HTTP_OK /\ ~last'.threw) ]_vars

\* Steps of each component's handlers, by last.op.
LoginFormOps == {"LoginSubmit", "login", "SsoInvalidEmail", "SsoSubmit", "sso", "MfaBack"}
MfaStepOps == {"MfaLoginSubmit", "mfaLogin"}
SignupOps == {"RegisterSubmit", "register"}
WizardOps == {"OpenWizard", "CloseWizard", "WizSetupSubmit", "wizSetup", "WizContinue",
              "WizBack", "WizVerifySubmit", "wizVerify", "WizSavedCodes"}
DisableFormOps == {"OpenDisableMfa", "CloseDisableMfa", "DisableMfaSubmit",
                   "DisableMfaInvalid", "disableMfa"}
InvitationOps == {"InviteSubmit", "invite"}
ForcePwOps == {"ForcePwSubmit", "forcePw"}
ProfileOps == {"ProfileSubmit"}
ComponentOps == LoginFormOps \cup MfaStepOps \cup SignupOps \cup WizardOps \cup DisableFormOps
                \cup InvitationOps \cup ForcePwOps \cup ProfileOps

\* C8 as stated: nothing mutable is shared: a step of a component's handler
\* never writes the user record or its stored copy, which the handlers of
\* the other components read and write.
C8_HandlersWriteNoSharedState ==
    [][ last'.op \in ComponentOps =>
            (user' = user /\ storage'.user_data = storage.user_data) ]_vars

\* C8 amended: each form owns its local UI state: as long as the route stays,
\* a step of one component's handler leaves the local state of every other
\* component unchanged, but for LoginForm showing or hiding its MFALoginStep
\* and MFALoginStep's success hiding itself through LoginForm's onSuccess
\* callback.  (Shared by all components are AuthProvider's user, the
\* auth_token and user_data entries of localStorage, and the route.)
C8_LocalStateOwned ==
    [][ (last'.op \in ComponentOps /\ route' = route) =>
          /\ last'.op \notin LoginFormOps \cup {"mfaLogin"} => loginForm' = loginForm
          /\ last'.op = "mfaLogin" =>
                loginForm' = [loginForm EXCEPT !.showMfaStep = loginForm'.showMfaStep]
          /\ last'.op \notin MfaStepOps \cup LoginFormOps => mfaStep' = mfaStep
          /\ last'.op \in LoginFormOps => mfaStep' \in {mfaStep, MfaStepInit}
          /\ last'.op \notin SignupOps => signupForm' = signupForm
          /\ last'.op \notin WizardOps => wizard' = wizard
          /\ last'.op \notin DisableFormOps => disableForm' = disableForm
          /\ last'.op \notin InvitationOps => invitation' = invitation
          /\ last'.op \notin ForcePwOps => forcePw' = forcePw
          /\ last'.op \notin ProfileOps => profileForm' = profileForm ]_vars

\* C8, reached: MFALoginStep's verification succeeded and LoginForm's
\* callback has hidden the step.
C8_CallbackHidMfaStep ==
    /\ last.op = "mfaLogin"
    /\ ~last.threw
    /\ last.mounted
    /\ route = "/login"
    /\ ~loginForm.showMfaStep

\* C9: a protected page never renders its content while nobody is signed in,
\* and once auth loading is over with nobody signed in the route is not a
\* protected page any more: it has become /login.
C9_ProtectedPagesGuarded ==
    /\ RendersContent(route, authLoading, user) => isAuthenticated
    /\ (~authLoading /\ ~isAuthenticated) => route \notin ProtectedRoutes
    /\ (last.op = "Navigate" /\ last.code \in ProtectedRoutes
          /\ ~authLoading /\ ~isAuthenticated) => route = "/login"

\* C9, reached: a protected page was navigated to with nobody signed in.
C9_RedirectedToLogin ==
    /\ last.op = "Navigate"
    /\ last.code \in ProtectedRoutes
    /\ ~authLoading
    /\ ~isAuthenticated
    /\ route = "/login"

\* C10: when the MFA step of a login reports that the code was verified, the
\* user is authenticated: the auth token is stored and user is set.
C10_MfaLoginAuthenticates ==
    (last.op = "mfaLogin" /\ last.status = HTTP_OK /\ ~last.threw) =>
        (storage.auth_token /\ user # NoUser)

\* C11: after a successful login the token and the user data are stored, the
\* user is set, and the route is /verify-email when account_status is
\* pending_verification, /force-password-change when it is
\* password_expired_grace_period, and /dashboard in every other case.
C11_LoginStoresAndRoutes ==
    (last.op = "login" /\ ~last.threw) =>
        /\ storage.auth_token
        /\ user # NoUser
        /\ storage.user_data = user
        /\ user.account_status = "pending_verification" => route = "/verify-email"
        /\ user.account_status = "password_expired_grace_period" =>
              route = "/force-password-change"
        /\ user.account_status \notin {"pending_verification",
                                       "password_expired_grace_period"} =>
              route = "/dashboard"

\* C11, reached: a user whose password is in its grace period has signed in.
C11_GracePeriodLogin ==
    /\ last.op = "login"
    /\ ~last.threw
    /\ user.account_status = "password_expired_grace_period"
    /\ storage.auth_token
    /\ route = "/force-password-change"

\* C12: MFA is never disabled without password confirmation: the disable-MFA
\* request is sent only with a non-empty password, and is_mfa_enabled of the
\* signed-in user becomes false only in the step that delivers the successful
\* answer to that request.  (A record supplied by the backend at login or at
\* refresh is the backend's state, not a change the client makes.)
C12_MfaDisabledOnlyWithPassword ==
    [][ /\ Pending("disableMfa")' => Len(req'["disableMfa"].dt) >= 1
        /\ (/\ user # NoUser /\ user.is_mfa_enabled
            /\ user' # NoUser /\ ~user'.is_mfa_enabled
            /\ last'.op \notin {"login", "initAuth"}) =>
               (last'.op = "disableMfa" /\ last'.status = HTTP_OK /\ ~last'.threw) ]_vars

\* C13: form data is handed to a backend-calling callback (save, test or API
\* call) only after it has passed the schema the form is bound to.
C13_CallbackDataPassedSchema ==
    handed.cb # "none" => ConfigSchema(handed.values)

\* C14 as stated: a pending request is never cancelled by the client except,
\* at most, by the unmount of the component that issued it: a request stops
\* being pending only when its response has arrived, or when its component
\* is gone (unmounted, or the whole document replaced).
C14_CancelledOnlyByUnmount ==
    [][ \A h \in Handlers :
          LET deliveryOps == IF h = "initAuth" THEN {"initAuth", "initAuth.logout"} ELSE {h}
          IN  (Pending(h) /\ ~Pending(h)') =>
                 \/ last'.op \in deliveryOps /\ last'.status \in Statuses \ {NO_RESPONSE}
                 \/ ~req[h].mounted
                 \/ last'.op \in {"PageLoad", "LocationReload"} ]_vars

\* C14 amended: no component cancels a request, not even when it unmounts: a
\* pending request ends only with its response, with the axios instance's
\* timeout (the client gives the request up and the handler's catch runs),
\* or with the document being replaced (a page load, or the redirect to
\* /login after a 401).
C14_EndsByAnswerTimeoutOrUnload ==
    [][ \A h \in Handlers :
          LET deliveryOps == IF h = "initAuth" THEN {"initAuth", "initAuth.logout"} ELSE {h}
          IN  (Pending(h) /\ ~Pending(h)') =>
                 \/ last'.op \in deliveryOps /\ last'.status \in Statuses
                 \/ last'.op \in {"PageLoad", "LocationReload"} ]_vars

\* C14, reached: the request of a form that had been unmounted in the
\* meantime was still pending and ended with the timeout.
C14_OrphanTimedOut ==
    /\ last.op \in FormHandlers
    /\ ~last.mounted
    /\ last.status = NO_RESPONSE
    /\ last.threw
    /\ ~Pending(last.op)

\* C15: in the session list only other sessions can be revoked: the current
\* session never has a revoke action (none is offered for it and none was
\* called with its id), and 'Revoke All Others' is offered, and was called,
\* only when at least one other active, non-expired session exists.
C15_OnlyOtherSessionsRevocable ==
    LET other(i) == /\ sessions[i].is_active /\ ~sessions[i].is_expired
                    /\ ~sessions[i].is_current
    IN  /\ \A k \in 1..MaxSessions :
              ENABLED RevokeSession(k) =>
                  \E i \in DOMAIN sessions :
                      sessions[i] = ActiveSessions(sessions)[k] /\ other(i)
        /\ revoked.cb = "onSessionRevoke" =>
              \E i \in DOMAIN sessions : sessions[i].id = revoked.id /\ other(i)
        /\ ENABLED RevokeAllOthers => \E i \in DOMAIN sessions : other(i)
        /\ revoked.cb = "onRevokeAllOthers" => \E i \in DOMAIN sessions : other(i)

\* C15, reached: the list holds the current session and another active one,
\* and the other one was revoked from its menu.
C15_OtherSessionRevoked ==
    /\ revoked.cb = "onSessionRevoke"
    /\ \E i, j \in DOMAIN sessions :
          /\ sessions[i].is_current /\ sessions[i].is_active /\ ~sessions[i].is_expired
          /\ sessions[j].id = revoked.id /\ ~sessions[j].is_current
    /\ ENABLED RevokeAllOthers

\* C16: from the homepage, following the Sign In link leads to the route
\* /login and following the Get Started link leads to the route /signup.
C16_HomeLinksLead ==
    /\ (last.op = "FollowHomeLink" /\ last.code = "Sign In") => route = "/login"
    /\ (last.op = "FollowHomeLink" /\ last.code = "Get Started") => route = "/signup"

\* C16, reached: Get Started was followed from the homepage.
C16_GetStartedFollowed ==
    /\ last.op = "FollowHomeLink"
    /\ last.code = "Get Started"
    /\ route = "/signup"

\* C17: the homepage at / always shows the heading 'Enterprise Scheduling
\* Platform', a 'Sign In' link, a 'Get Started' link and the three feature
\* cards, whatever AuthProvider is doing.
C17_HomePageContent ==
    route = "/" =>
        LET page == PageAt(route, authLoading, user)
        IN  /\ page.heading = "Enterprise Scheduling Platform"
            /\ {"Sign In", "Get Started"} \subseteq page.links
            /\ page.cards = {"Smart Scheduling", "Enterprise Security",
                             "Workflow Automation"}

\* C17, reached: the homepage is open while a stored session is still being
\* verified.
C17_HomeWhileLoading ==
    /\ route = "/"
    /\ authLoading
    /\ Pending("initAuth")
    /\ PageAt(route, authLoading, user).heading = "Enterprise Scheduling Platform"

\* C18: once logout has completed (nobody is signed in and no user_data is
\* stored), the user stays unauthenticated and no user_data is written to
\* storage until the next successful login or register, even if requests
\* started before the logout (verifyMfa, disableMfa, forcePasswordChange,
\* refreshUser) complete afterwards.
C18_NoLateWriteAfterLogout ==
    [][ (/\ ~isAuthenticated /\ storage.user_data = NoUser
         /\ (isAuthenticated' \/ storage'.user_data # NoUser)) =>
            (last'.op \in {"login", "register"} /\ ~last'.threw) ]_vars

\* C19: whenever AuthProvider is not loading, isAuthenticated implies that an
\* auth token is present in storage; in particular, a stored token that
\* fails verification at start-up never leaves the user authenticated.
C19_AuthenticatedHasToken ==
    /\ (~authLoading /\ isAuthenticated) => storage.auth_token
    /\ (last.op \in {"initAuth", "initAuth.logout"} /\ last.threw) => ~isAuthenticated

\* C20: between auth operations (no request in flight, no redirect under
\* way, start-up over), auth_token and user_data are either both present in
\* storage or both absent.
C20_TokenAndUserDataTogether ==
    (/\ \A h \in Handlers : ~Pending(h)
     /\ ~reloadPending
     /\ ~authLoading) =>
        (storage.auth_token <=> storage.user_data # NoUser)

====
